---- MODULE Spec2Model ----
(***************************************************************************)
(* CTMP: windowed incremental synchronisation of OHLCV candles.            *)
(* Datetimes are UTC instants counted in seconds since the Unix epoch.     *)
(***************************************************************************)
EXTENDS Integers, Sequences, FiniteSets, TLC

VARIABLES
  pf,                   \* a pure function applied to drawn inputs
  cfg,                  \* the ticker descriptor: timeframe, requested start and end
  env,                  \* the exchange behind fetch_OHLCV and test_connection
  now,                  \* the current UTC time, adjusted to the timeframe
  pc,                   \* where the updater thread stands
  dm,                   \* the ticker's DateTimeManager
  last_dowload_status,  \* the download manager's last status
  df,                   \* the ticker's DataFrame
  store,                \* the rows of the ticker's database table
  dl,                   \* the locals of the download manager's download()
  clock,                \* how often time advanced and the process restarted
  hist,                 \* what happened so far, for the properties
  requests_semaphore,   \* the value of the exchange manager's semaphore
  task                  \* the threads calling the exchange manager: where each stands

vars ==
  <<pf, cfg, env, now, pc, dm, last_dowload_status, df, store, dl, clock, hist,
    requests_semaphore, task>>

gateVars == <<requests_semaphore, task>>

syncVars == <<cfg, env, now, pc, dm, last_dowload_status, df, store, dl, clock, hist>>

(***************************************************************************)
(* Bounds of the model.                                                    *)
(***************************************************************************)
\* Planner inputs: first and last range over MaxSpan+1 consecutive ticks.
MaxSpan == 7
\* Planner inputs: block_length ranges over 1..MaxBlock.
MaxBlock == 4

(***************************************************************************)
(* Calendar (lib/my_datetime.py).                                          *)
(***************************************************************************)
None == -1

SECONDS_PER_MINUTE == 60
MINUTES_PER_HOUR == 60
HOUR_PER_DAY == 24

Timeframes == {"1m", "1h", "1d"}

\* 2023-01-01T00:00Z, the instant the scenarios count from.
T0 == 19358 * (SECONDS_PER_MINUTE * MINUTES_PER_HOUR * HOUR_PER_DAY)

to_seconds(tf) ==
  CASE tf = "1m" -> SECONDS_PER_MINUTE
    [] tf = "1h" -> SECONDS_PER_MINUTE * MINUTES_PER_HOUR
    [] tf = "1d" -> SECONDS_PER_MINUTE * MINUTES_PER_HOUR * HOUR_PER_DAY

\* math.trunc(a / b) for b > 0: rounds toward zero.
Trunc(a, b) == IF a >= 0 THEN a \div b ELSE -((-a) \div b)

delta_seconds(d1, d2) == d1 - d2

delta_minutes(d1, d2) == Trunc(delta_seconds(d1, d2), 60)

delta_hours(d1, d2) == Trunc(delta_minutes(d1, d2), 60)

delta_days(d1, d2) == Trunc(delta_hours(d1, d2), 24)

get_diff_units_unsigned(start_date, end_date, tf) ==
  LET lo == IF start_date <= end_date THEN start_date ELSE end_date
      hi == IF start_date <= end_date THEN end_date ELSE start_date
  IN CASE tf = "1m" -> delta_minutes(hi, lo)
       [] tf = "1h" -> delta_hours(hi, lo)
       [] tf = "1d" -> delta_days(hi, lo)

get_diff_units(start_date, end_date, tf) ==
  CASE tf = "1m" -> delta_minutes(end_date, start_date)
    [] tf = "1h" -> delta_hours(end_date, start_date)
    [] tf = "1d" -> delta_days(end_date, start_date)

adj_date_from_timeframe_as_is(date, tf) == date

adj_date_from_timeframe_strictly_before(date, tf) ==
  (date - 1) - ((date - 1) % to_seconds(tf))

\* replace(second=0, ...), replace(minute=0, ...), replace(hour=0, ...) of a UTC
\* instant: the start of its minute, hour or day.
adj_date_from_timeframe(date, tf) == date - (date % to_seconds(tf))

Abs(n) == IF n < 0 THEN -n ELSE n

offset_datetime(date, num_bars, tf) ==
  IF num_bars <= 0
    THEN date - Abs(num_bars) * to_seconds(tf)
    ELSE date + Abs(num_bars) * to_seconds(tf)

(***************************************************************************)
(* Window planner (lib/my_datetime.py, build_datetime_endpoints).          *)
(***************************************************************************)
\* samples_per_query_lst: the remainder first, then the full blocks.
samples_per_query_lst_swapped(total_time_units, block_length) ==
  [i \in 1..(total_time_units \div block_length) |-> block_length]
    \o (IF total_time_units % block_length > 0
          THEN <<total_time_units % block_length>>
          ELSE <<>>)

samples_per_query_lst(total_time_units, block_length) ==
  (IF total_time_units % block_length > 0
     THEN <<total_time_units % block_length>>
     ELSE <<>>)
    \o [i \in 1..Trunc(total_time_units, block_length) |-> block_length]

\* The loop that walks backward from last_date, one window per entry.
RECURSIVE endpoints_loop_overlap(_, _, _)
endpoints_loop_overlap(samples, last_date_temp, tf) ==
  IF samples = <<>>
    THEN <<>>
    ELSE LET first_date_temp == offset_datetime(last_date_temp, -(Head(samples) - 1), tf)
         IN <<<<first_date_temp, last_date_temp>>>>
              \o endpoints_loop_overlap(Tail(samples), first_date_temp, tf)

RECURSIVE endpoints_loop(_, _, _)
endpoints_loop(samples, last_date_temp, tf) ==
  IF samples = <<>>
    THEN <<>>
    ELSE LET first_date_temp == offset_datetime(last_date_temp, -(Head(samples) - 1), tf)
         IN <<<<first_date_temp, last_date_temp>>>>
              \o endpoints_loop(Tail(samples), offset_datetime(first_date_temp, -1, tf), tf)

build_datetime_endpoints_unguarded(first_date, last_date, tf, block_length) ==
  endpoints_loop(
    samples_per_query_lst(get_diff_units(first_date, last_date, tf) + 1, block_length),
    last_date, tf)

build_datetime_endpoints(first_date, last_date, tf, block_length) ==
  IF first_date > last_date
    THEN <<>>
    ELSE endpoints_loop(
           samples_per_query_lst(get_diff_units(first_date, last_date, tf) + 1, block_length),
           last_date, tf)

(***************************************************************************)
(* The planner applied to inputs drawn from a bounded set.                 *)
(***************************************************************************)
PlanTicks(tf) == {offset_datetime(T0, i, tf) : i \in 0..MaxSpan}

\* The semaphore as ExchangeManagerCCXT.__init__ builds it; no thread calls.
GateOff ==
  /\ requests_semaphore = 1
  /\ task = <<>>

\* No updater thread runs while a pure function is applied.
SyncOff ==
  /\ cfg = [tf |-> "1h", start |-> None, final |-> None]
  /\ env = [tag |-> "off"]
  /\ now = T0
  /\ pc = "off"
  /\ dm = [first_available_datetime |-> None, initial_datetime |-> None,
           initial_datetime_id |-> None]
  /\ last_dowload_status = None
  /\ df = <<>>
  /\ store = <<>>
  /\ dl = [from_date |-> None, from_date_selected |-> None, trial_counter |-> 1,
          chunk |-> <<>>, status_set |-> FALSE]
  /\ clock = [ticks |-> 0, restarts |-> 0, disorder |-> 0]
  /\ hist = [tag |-> "off"]

InitPlan ==
  /\ SyncOff
  /\ GateOff
  /\ \E tf \in Timeframes :
       \E first \in PlanTicks(tf), last \in PlanTicks(tf), block \in 1..MaxBlock :
         pf = [op |-> "PlanWindows", tf |-> tf, first |-> first, last |-> last,
               block |-> block, applied |-> FALSE, out |-> <<>>]

PlanWindows ==
  /\ pf.op = "PlanWindows"
  /\ ~pf.applied
  /\ pf' = [pf EXCEPT !.applied = TRUE,
                      !.out = build_datetime_endpoints(pf.first, pf.last, pf.tf, pf.block)]
  /\ UNCHANGED <<syncVars, gateVars>>

NextPlan == PlanWindows

SpecPlan == InitPlan /\ [][NextPlan]_vars

\* Ticks of the closed range [from, to] on the grid of tf.
TickSet(from, to, tf) ==
  {from + i * to_seconds(tf) : i \in 0..((to - from) \div to_seconds(tf))}

WindowSize(w, tf) == get_diff_units(w[1], w[2], tf) + 1

RECURSIVE SumSizes(_, _)
SumSizes(ws, tf) ==
  IF ws = <<>> THEN 0 ELSE WindowSize(Head(ws), tf) + SumSizes(Tail(ws), tf)

PlanCase == pf.op = "PlanWindows" /\ pf.applied /\ pf.first <= pf.last

\* C1: for aligned first <= last and maxPerWindow >= 1, the windows returned by
\* build_datetime_endpoints partition the ticks of [first, last]: their sizes sum
\* to get_diff_units(first, last) + 1, none has more than maxPerWindow ticks,
\* every window has from <= to, the tick sets are pairwise disjoint and their
\* union is the tick set of [first, last], and each window ends exactly one step
\* before the window listed before it starts.
C1_PlanPartition ==
  PlanCase =>
    LET ws == pf.out
        tf == pf.tf
    IN /\ SumSizes(ws, tf) = get_diff_units(pf.first, pf.last, tf) + 1
       /\ \A i \in 1..Len(ws) :
            /\ ws[i][1] <= ws[i][2]
            /\ WindowSize(ws[i], tf) <= pf.block
            /\ WindowSize(ws[i], tf) >= 1
       /\ \A i \in 1..(Len(ws) - 1) :
            offset_datetime(ws[i + 1][2], 1, tf) = ws[i][1]
       /\ \A i, j \in 1..Len(ws) :
            i # j => TickSet(ws[i][1], ws[i][2], tf) \cap TickSet(ws[j][1], ws[j][2], tf) = {}
       /\ UNION {TickSet(ws[i][1], ws[i][2], tf) : i \in 1..Len(ws)}
            = TickSet(pf.first, pf.last, tf)

C1_Witness ==
  /\ PlanCase
  /\ Len(pf.out) >= 3
  /\ WindowSize(pf.out[1], pf.tf) < pf.block

PartialCase ==
  /\ PlanCase
  /\ (get_diff_units(pf.first, pf.last, pf.tf) + 1) % pf.block # 0

\* C2 as stated: when the tick count is not a multiple of maxPerWindow, the
\* window ending at last is full-sized and the partial window is the one
\* starting at first.
C2_Original ==
  PartialCase =>
    \A i \in 1..Len(pf.out) :
      /\ pf.out[i][2] = pf.last => WindowSize(pf.out[i], pf.tf) = pf.block
      /\ WindowSize(pf.out[i], pf.tf) < pf.block => pf.out[i][1] = pf.first

\* C2 amended: when the tick count is not a multiple of maxPerWindow, the single
\* partial window is the most recent one (listed first, ending at last, with
\* total mod maxPerWindow ticks) and every older window is full-sized; the
\* list runs from the most recent window to the oldest, which starts at first.
C2_PartialIsMostRecent ==
  PartialCase =>
    LET ws == pf.out
        total == get_diff_units(pf.first, pf.last, pf.tf) + 1
    IN /\ Len(ws) >= 1
       /\ ws[1][2] = pf.last
       /\ WindowSize(ws[1], pf.tf) = total % pf.block
       /\ \A i \in 2..Len(ws) : WindowSize(ws[i], pf.tf) = pf.block
       /\ ws[Len(ws)][1] = pf.first

C2_Witness ==
  /\ PartialCase
  /\ Len(pf.out) >= 2

(***************************************************************************)
(* Program constants.                                                      *)
(***************************************************************************)
NUM_DATA_IN_QUERY == 200
MAX_TRIAL_NUM == 100
QUERY_LENGTH_TOLERANCE == 2
RESULTS_STATUS_OK == 0
RESULTS_STATUS_DATA_NOT_AVAILABLE == 10
RESULTS_STATUS_END_OF_DATA == 11
RESULTS_STATUS_GENERIC_ERROR == 100
RESULTS_STATUS_NETWORK_ERROR == 101

(***************************************************************************)
(* Data frames (lib/table_manager.py).  A DataFrame is the sequence of its *)
(* rows; a row is its id and its date, the columns the engine reads.       *)
(***************************************************************************)
Min(a, b) == IF a <= b THEN a ELSE b

SetMin(S) == CHOOSE x \in S : \A y \in S : x <= y

SetMax(S) == CHOOSE x \in S : \A y \in S : y <= x

\* to_df and cast_datetime_from_timestamp: one row per candle, no id yet.
to_df(candles) == [i \in 1..Len(candles) |-> [id |-> None, date |-> candles[i]]]

bound_df_unbounded(d, from_date, to_date) == d

bound_df(d, from_date, to_date) ==
  IF d = <<>>
    THEN d
    ELSE LET ge == {i \in 1..Len(d) : d[i].date >= from_date}
             le == {i \in 1..Len(d) : d[i].date <= to_date}
         IN IF d[1].date <= from_date /\ ge = {}
              THEN <<>>
              ELSE IF d[Len(d)].date > to_date /\ le = {}
                     THEN <<>>
                     ELSE SubSeq(d,
                                 IF d[1].date > from_date THEN 1 ELSE SetMin(ge),
                                 IF d[Len(d)].date > to_date THEN SetMax(le) ELSE Len(d))

slice_df_from_datetime(d, from_datetime) ==
  IF d = <<>> \/ from_datetime = None
    THEN d
    ELSE LET match == {i \in 1..Len(d) : d[i].date >= from_datetime}
         IN IF match = {} THEN <<>> ELSE SubSeq(d, SetMin(match), Len(d))

slice_df_to_datetime_whole(d, to_datetime) == d

slice_df_to_datetime(d, to_datetime) ==
  IF d = <<>> \/ to_datetime = None
    THEN d
    ELSE LET match == {i \in 1..Len(d) : d[i].date <= to_datetime}
         IN IF match = {} THEN <<>> ELSE SubSeq(d, 1, SetMax(match))

assign_df_ids_from_one(d) == [i \in 1..Len(d) |-> [d[i] EXCEPT !.id = i]]

assign_df_ids(d) == [i \in 1..Len(d) |-> [d[i] EXCEPT !.id = i - 1]]

\* "if starting_id:" is false for None and for 0.
offset_df_ids(d, starting_id) ==
  IF starting_id # None /\ starting_id # 0
    THEN [i \in 1..Len(d) |-> [d[i] EXCEPT !.id = d[i].id + starting_id]]
    ELSE d

(***************************************************************************)
(* The database table (tools_lib/my_db.py, TickerDBManager).               *)
(***************************************************************************)
\* SELECT ... ORDER BY id DESC LIMIT 1
get_last_row_first(table) == table[1]

get_last_row(table) ==
  table[CHOOSE i \in 1..Len(table) : \A j \in 1..Len(table) : table[j].id <= table[i].id]

get_db_last_date(table) == IF table = <<>> THEN None ELSE get_last_row(table).date

get_db_last_id(table) == IF table = <<>> THEN None ELSE get_last_row(table).id

(***************************************************************************)
(* Forward window (lib/my_datetime.py, get_datetime_endpoints_from_date).  *)
(***************************************************************************)
get_datetime_endpoints_from_date_current(from_date, tf, num_of_data, act_date) ==
  LET first_date == adj_date_from_timeframe(from_date, tf)
      last_date == offset_datetime(first_date, num_of_data, tf)
      act_date_adj == adj_date_from_timeframe(act_date, tf)
      last_clamped == IF last_date > act_date_adj THEN act_date_adj ELSE last_date
      date_endpoints_list ==
        build_datetime_endpoints(first_date, last_clamped, tf, num_of_data)
  IN IF date_endpoints_list # <<>>
       THEN date_endpoints_list[Len(date_endpoints_list)]
       ELSE <<>>

get_datetime_endpoints_from_date(from_date, tf, num_of_data, act_date) ==
  LET first_date == adj_date_from_timeframe(from_date, tf)
      last_date == offset_datetime(first_date, num_of_data, tf)
      act_date_adj == adj_date_from_timeframe(act_date, tf)
      last_clamped == IF last_date > act_date_adj THEN act_date_adj ELSE last_date
      date_endpoints_list ==
        build_datetime_endpoints(first_date, offset_datetime(last_clamped, -1, tf),
                                 tf, num_of_data)
  IN IF date_endpoints_list # <<>>
       THEN date_endpoints_list[Len(date_endpoints_list)]
       ELSE <<>>

get_base_delta(tf) == to_seconds(tf)

(***************************************************************************)
(* Bounds of the synchroniser model.                                       *)
(***************************************************************************)
\* How many times the clock may pass a timeframe boundary.
MaxTicks == 1
\* How many times the process may be restarted.
MaxRestarts == 1
\* How many calls a scripted exchange answers.
MaxCalls == 110
\* How many responses of an unscripted exchange may be out of order.
MaxDisorder == 1

(***************************************************************************)
(* The exchange client (lib/exchange_lib_manager.py, ExchangeManagerCCXT). *)
(* A fetch ends with a ccxt exception or with candles, here their          *)
(* timestamps, in ascending order.                                         *)
(***************************************************************************)
CcxtErrors == {"RequestTimeout", "ExchangeError", "NetworkError", "RateLimitExceeded"}

\* ccxt.base.errors: RequestTimeout and RateLimitExceeded derive from NetworkError.
IsInstance(cls, base) ==
  \/ cls = base
  \/ base = "NetworkError" /\ cls \in {"RequestTimeout", "RateLimitExceeded"}

\* The except clauses of fetch_OHLCV, tried in the order they are written.
fetch_OHLCV_raises(cls) ==
  IF IsInstance(cls, "RequestTimeout") \/ IsInstance(cls, "ExchangeError")
    THEN "ExchangeConnectionError"
    ELSE IF IsInstance(cls, "NetworkError")
           THEN "GeneralNetworkError"
           ELSE IF IsInstance(cls, "RateLimitExceeded")
                  THEN "ServerTooBusyError"
                  ELSE cls

\* The failure each way out of the download loop stands for.
FailureClass(exit) ==
  CASE exit \in {"RequestTimeout", "ExchangeError"} -> "ConnectionError"
    [] exit = "NetworkError" -> "NetworkError"
    [] exit = "RateLimitExceeded" -> "RateLimited"
    [] exit = "NoCandles" -> "NoDataAvailable"
    [] exit = "CursorPastNow" -> "EndOfData"

Step == to_seconds(cfg.tf)

\* n consecutive ticks from a, with g ticks missing after the first one.
Run(a, n, g) == [i \in 1..n |-> a + ((i - 1) + (IF i > 1 THEN g ELSE 0)) * Step]

\* The exchange holds no candle before its first one nor after the current one.
Held(rows) ==
  LET Exists(t) == env.first <= t /\ t <= now
  IN SelectSeq(rows, Exists)

IsAscending(rows) == \A i \in 1..(Len(rows) - 1) : rows[i] < rows[i + 1]

\* Candles that are not in ascending order.
OutOfOrder(since) ==
  {r \in {Held(<<since + Step, since - Step, since + 2 * Step>>),
          Held(<<since + 2 * Step, since + Step>>)} : ~IsAscending(r)}

\* An unscripted exchange: the candles start around the requested instant, or
\* past the whole window, are few or fill the request, and may miss a tick.
AnyRows(since, limit) ==
  {Held(Run(a, Min(n, limit), g)) :
     a \in {since, since + Step, since + 2 * Step, since + (limit - 1) * Step},
     n \in {0, 1, 3, limit},
     g \in {0, 1}}

\* How many ticks of [lo, hi] are at or after since.
TicksFrom(lo, hi, since) ==
  LET start == IF since > lo THEN since ELSE lo
  IN IF lo = None \/ start > hi THEN 0 ELSE ((hi - start) \div Step) + 1

\* A scripted exchange holds the candles of [a1, b1] and of [a2, now] and
\* returns the first limit of them at or after since; before emptyBefore it
\* returns nothing.
ScriptRows(since, limit) ==
  LET b1 == IF env.b1 = None THEN now ELSE env.b1
      n1 == Min(limit, TicksFrom(env.a1, b1, since))
      n2 == Min(limit - n1, TicksFrom(env.a2, now, since))
      s1 == IF since > env.a1 THEN since ELSE env.a1
      s2 == IF since > env.a2 THEN since ELSE env.a2
  IN IF env.emptyBefore # None /\ since < env.emptyBefore
       THEN <<>>
       ELSE Run(s1, n1, 0) \o Run(s2, n2, 0)

FetchOutcomes(since, limit) ==
  IF env.mode = "any"
    THEN {[kind |-> "error", cls |-> c] : c \in CcxtErrors}
           \cup {[kind |-> "rows", rows |-> r] : r \in AnyRows(since, limit)}
           \cup {[kind |-> "rows", rows |-> r] :
                   r \in IF clock.disorder < MaxDisorder THEN OutOfOrder(since) ELSE {}}
    ELSE IF env.fail > 0
           THEN {[kind |-> "error", cls |-> "RateLimitExceeded"]}
           ELSE {[kind |-> "rows", rows |-> ScriptRows(since, limit)]}

\* The scripted exchange counts its calls and its remaining failures.
EnvAfterFetch ==
  IF env.mode = "any"
    THEN env
    ELSE [env EXCEPT !.calls = env.calls + 1,
                     !.fail = IF env.fail > 0 THEN env.fail - 1 ELSE 0]

(***************************************************************************)
(* Initial states: the ticker as main.py builds it, an empty table.        *)
(***************************************************************************)
Day == SECONDS_PER_MINUTE * MINUTES_PER_HOUR * HOUR_PER_DAY

Hour == SECONDS_PER_MINUTE * MINUTES_PER_HOUR

\* 2023-01-02T00:00Z, a start or end date a descriptor can name.
B == T0 + Day

\* early: the response of this cycle began before the requested start;
\* wroteAfterEarly: such a cycle wrote rows;
\* failed: the start requested and the checkpoint read by the cycle whose write
\* failed, not set when the last write succeeded.
NoFailure == [set |-> FALSE, start |-> None, last_date |-> None, last_id |-> None]

\* stopped: where the thread stood when the process ended, "no" while it runs;
\* last_exit: how the last call of download() of this process ended, "none"
\* before the first one.
NoHist ==
  [early |-> FALSE, wroteAfterEarly |-> FALSE, failed |-> NoFailure, stopped |-> "no",
   last_exit |-> "none"]

Fresh(start) ==
  /\ pc = "start"
  /\ dm = [first_available_datetime |-> None, initial_datetime |-> start,
           initial_datetime_id |-> None]
  /\ last_dowload_status = None
  /\ df = <<>>
  /\ store = <<>>
  /\ dl = [from_date |-> None, from_date_selected |-> None, trial_counter |-> 1,
          chunk |-> <<>>, status_set |-> FALSE]
  /\ clock = [ticks |-> 0, restarts |-> 0, disorder |-> 0]
  /\ hist = NoHist
  /\ pf = [op |-> "none"]
  /\ GateOff

Scripted(tag, first, a1, b1, a2, emptyBefore, fail) ==
  [tag |-> tag, mode |-> "script", first |-> first, a1 |-> a1, b1 |-> b1, a2 |-> a2,
   emptyBefore |-> emptyBefore, fail |-> fail, calls |-> 0]

\* Any descriptor main.py accepts (start <= end), any exchange; the scripted
\* exchanges below are hourly.
InitAny ==
  \E tf \in Timeframes \ {"1h"}, start \in {None, B}, final \in {None, B}, k \in {-2, 0, 1},
     n \in {-1, 0, 2} :
    /\ cfg = [tf |-> tf, start |-> start, final |-> final]
    /\ now = B + n * to_seconds(tf)
    /\ B + k * to_seconds(tf) < now
    /\ env = [tag |-> "any", mode |-> "any", first |-> B + k * to_seconds(tf),
              a1 |-> None, b1 |-> None, a2 |-> None, emptyBefore |-> None,
              fail |-> 0, calls |-> 0]
    /\ Fresh(start)

\* Hourly ticker from 2023-01-01T00:00Z, no end date, an exchange with every tick.
InitEndToEnd ==
  /\ cfg = [tf |-> "1h", start |-> T0, final |-> None]
  /\ now = T0 + 450 * Hour
  /\ env = Scripted("e2e", T0, T0, None, None, None, 0)
  /\ Fresh(T0)

\* An exchange that returns nothing until the query starts at day 5 or later.
InitEmptyUntil ==
  /\ cfg = [tf |-> "1h", start |-> T0, final |-> None]
  /\ now = T0 + 20 * Day
  /\ env = Scripted("emptyUntil", T0, T0 + 4 * Day, None, None, T0 + 4 * Day, 0)
  /\ Fresh(T0)

\* An exchange that answers RateLimitExceeded three times, then with candles.
InitRateLimit ==
  /\ cfg = [tf |-> "1h", start |-> T0, final |-> None]
  /\ now = T0 + 5 * Hour
  /\ env = Scripted("rateLimit", T0, T0, None, None, None, 3)
  /\ Fresh(T0)

\* An exchange with two candles, then none for 10200 hours.
InitLongHole ==
  /\ cfg = [tf |-> "1h", start |-> T0, final |-> None]
  /\ now = T0 + 10203 * Hour
  /\ env = Scripted("longHole", T0, T0, T0 + Hour, T0 + 10200 * Hour, None, 0)
  /\ Fresh(T0)

Init == InitAny \/ InitEndToEnd \/ InitEmptyUntil \/ InitRateLimit \/ InitLongHole

(***************************************************************************)
(* TickerManager.download (lib/ticker_manager.py).                         *)
(***************************************************************************)
NeedsSession_after_any_failure(status) == status # None

\* wrapper_binance.py, lines 239-240: wait_for_session after a network error.
NeedsSession(status) == status = RESULTS_STATUS_NETWORK_ERROR

EffectiveStart_as_requested(init0, fa) == IF init0 = None THEN fa ELSE init0

\* Lines 94-96: the initial datetime moves up to the first available datetime.
EffectiveStart(init0, fa) == IF init0 = None \/ init0 < fa THEN fa ELSE init0

\* Lines 92-106 and the start of the download manager's download(): the
\* effective start, the early return, the status reset and the session wait.
EnterDownload(init0, id0, fa) ==
  LET init1 == EffectiveStart(init0, fa)
      st1 == IF last_dowload_status \in {RESULTS_STATUS_OK, RESULTS_STATUS_END_OF_DATA}
               THEN None
               ELSE last_dowload_status
  IN /\ dm' = [first_available_datetime |-> fa, initial_datetime |-> init1,
               initial_datetime_id |-> id0]
     /\ IF cfg.final # None /\ cfg.final < fa
          THEN /\ pc' = "post"
               /\ UNCHANGED <<last_dowload_status, dl>>
          ELSE /\ last_dowload_status' = st1
               /\ dl' = [from_date |-> init1, from_date_selected |-> init1,
                         trial_counter |-> 1, chunk |-> <<>>, status_set |-> FALSE]
               /\ pc' = IF NeedsSession(st1) THEN "dl_wait" ELSE "dl_loop"

\* Lines 107-131: what the ticker keeps of the chunk the downloader returned.
FinishDownload(chunk) ==
  IF chunk = <<>>
    THEN <<>>
    ELSE IF dm.initial_datetime # None /\ chunk[Len(chunk)].date < dm.initial_datetime
           THEN <<>>
           ELSE offset_df_ids(
                  assign_df_ids(
                    slice_df_to_datetime(
                      slice_df_from_datetime(chunk, dm.initial_datetime),
                      cfg.final)),
                  dm.initial_datetime_id)

(***************************************************************************)
(* TickerAutoUpdater.updater (lib/ticker_manager.py).                      *)
(***************************************************************************)
Terminal == {"done", "blocked", "exited", "crashed"}

NotYetAvailable_strictly_after(initial_datetime, act_datetime) ==
  initial_datetime # None /\ initial_datetime > act_datetime

\* Lines 414-415: the data from the initial datetime is not yet available.
NotYetAvailable(initial_datetime, act_datetime) ==
  initial_datetime # None /\ initial_datetime >= act_datetime

\* Lines 408-423.
UpdaterStart ==
  /\ pc = "start"
  /\ pc' = IF NotYetAvailable(dm.initial_datetime, adj_date_from_timeframe(now, cfg.tf))
             THEN "exited"
             ELSE "top"
  /\ UNCHANGED <<gateVars, pf, cfg, env, now, dm, last_dowload_status, df, store, dl, clock, hist>>

NeedsResolution_every_cycle == TRUE

\* Line 84: "if not self.datetime_manager.first_available_datetime".
NeedsResolution == dm.first_available_datetime = None

\* Lines 424-460: the exits, the checkpoint read back, and into ticker.download().
LoopTop ==
  /\ pc = "top"
  /\ LET last_date == get_db_last_date(store)
         last_id == get_db_last_id(store)
         init0 == IF last_date # None
                    THEN last_date + get_base_delta(cfg.tf)
                    ELSE dm.initial_datetime
         id0 == IF last_id # None THEN last_id + 1 ELSE dm.initial_datetime_id
     IN IF \/ /\ cfg.final # None
              /\ dm.first_available_datetime # None
              /\ cfg.final < dm.first_available_datetime
           \/ /\ last_date # None
              /\ cfg.final # None
              /\ last_date >= cfg.final
          THEN /\ pc' = "done"
               /\ UNCHANGED <<dm, last_dowload_status, df, dl, hist>>
          ELSE IF last_date # None /\ cfg.final # None /\ init0 > cfg.final
                 THEN \* set_initial_datetime raises StartEndDatetimesError
                      /\ pc' = "crashed"
                      /\ UNCHANGED <<dm, last_dowload_status, df, dl, hist>>
                 ELSE /\ df' = <<>>
                      /\ hist' = [hist EXCEPT !.early = FALSE]
                      /\ IF NeedsResolution
                           THEN /\ pc' = "resolve_wait"
                                /\ dm' = [dm EXCEPT !.initial_datetime = init0,
                                                    !.initial_datetime_id = id0]
                                /\ UNCHANGED <<last_dowload_status, dl>>
                           ELSE EnterDownload(init0, id0, dm.first_available_datetime)
  /\ UNCHANGED <<gateVars, pf, cfg, env, now, store, clock>>

\* wait_for_session: one connection test; a failed one sleeps and tests again.
WaitForSession ==
  /\ pc \in {"resolve_wait", "dl_wait"}
  /\ \E ok \in (IF env.mode = "any" THEN BOOLEAN ELSE {TRUE}) :
       pc' = IF ~ok THEN pc ELSE IF pc = "resolve_wait" THEN "resolve" ELSE "dl_loop"
  /\ UNCHANGED <<gateVars, pf, cfg, env, now, dm, last_dowload_status, df, store, dl, clock, hist>>

\* get_first_datetime: the exchange's first datetime, or None after an error.
ResolveStart ==
  /\ pc = "resolve"
  /\ \E ok \in (IF env.mode = "any" THEN BOOLEAN ELSE {TRUE}) :
       IF ok
         THEN EnterDownload(dm.initial_datetime, dm.initial_datetime_id, env.first)
         ELSE /\ pc' = "post"
              /\ UNCHANGED <<dm, last_dowload_status, dl>>
  /\ UNCHANGED <<gateVars, pf, cfg, env, now, df, store, clock, hist>>

(***************************************************************************)
(* TickerDownloadManagerSpot.download (lib/wrapper_binance.py) and         *)
(* download_chunk_df (lib/exchange_lib_manager.py).                        *)
(***************************************************************************)
Window_whole_budget(from_date) ==
  get_datetime_endpoints_from_date(from_date, cfg.tf, NUM_DATA_IN_QUERY, now)

\* The window download_chunk_df asks for, <<>> when there is none.
Window(from_date) ==
  get_datetime_endpoints_from_date(from_date, cfg.tf,
                                   NUM_DATA_IN_QUERY - QUERY_LENGTH_TOLERANCE, now)

\* The query of download_chunk_df: one step before the window, its length plus
\* the tolerance.
QuerySince(w) == offset_datetime(w[1], -1, cfg.tf)

QueryLimit(w) == get_diff_units(w[1], w[2], cfg.tf) + 1 + QUERY_LENGTH_TOLERANCE

\* The candles of a fetch, as download_chunk_df returns them.
download_chunk_df(rows, w) == bound_df(to_df(rows), w[1], w[2])

StatusOnRaise_generic(exc) ==
  CASE exc = "ExchangeConnectionError" -> RESULTS_STATUS_NETWORK_ERROR
    [] exc = "GeneralNetworkError" -> RESULTS_STATUS_GENERIC_ERROR
    [] exc = "ServerTooBusyError" -> RESULTS_STATUS_NETWORK_ERROR
    [] exc = "ExchangeResultsNotAvailableError" -> RESULTS_STATUS_DATA_NOT_AVAILABLE

\* The except clauses of download().
StatusOnRaise(exc) ==
  CASE exc = "ExchangeConnectionError" -> RESULTS_STATUS_NETWORK_ERROR
    [] exc = "GeneralNetworkError" -> RESULTS_STATUS_NETWORK_ERROR
    [] exc = "ServerTooBusyError" -> RESULTS_STATUS_NETWORK_ERROR
    [] exc = "ExchangeResultsNotAvailableError" -> RESULTS_STATUS_DATA_NOT_AVAILABLE

\* The ways out of the while loop of download() that are not a success: a ccxt
\* exception of the fetch, a fetch without candles, a cursor at or past now.
LoopExits == CcxtErrors \cup {"NoCandles", "CursorPastNow"}

download_status_end_as_ok(exit) ==
  CASE exit \in CcxtErrors -> StatusOnRaise(fetch_OHLCV_raises(exit))
    [] exit = "NoCandles" -> StatusOnRaise("ExchangeResultsNotAvailableError")
    [] exit = "CursorPastNow" -> RESULTS_STATUS_OK

\* The status download() leaves in last_dowload_status on each way out.
download_status(exit) ==
  CASE exit \in CcxtErrors -> StatusOnRaise(fetch_OHLCV_raises(exit))
    [] exit = "NoCandles" -> StatusOnRaise("ExchangeResultsNotAvailableError")
    [] exit = "CursorPastNow" -> RESULTS_STATUS_END_OF_DATA

\* download() returns chunk and TickerManager.download keeps its part of it.
Return(chunk, status) ==
  /\ last_dowload_status' = status
  /\ dl' = [dl EXCEPT !.chunk = chunk, !.status_set = TRUE]
  /\ df' = FinishDownload(chunk)
  /\ pc' = "post"

CapExceeded_never(n) == FALSE

\* Line 281: "if trial_counter > MAX_TRIAL_NUM".
CapExceeded(n) == n > MAX_TRIAL_NUM

\* Lines 279-289: the chunk is empty, count the trial and move the cursor.
TryAgain(h) ==
  LET from_date_new == offset_datetime(dl.from_date_selected, NUM_DATA_IN_QUERY \div 2, cfg.tf)
  IN IF CapExceeded(dl.trial_counter + 1)
       THEN \* raise ExchangeResultsNotAvailableError, which no caller catches
            /\ pc' = "crashed"
            /\ dl' = [dl EXCEPT !.trial_counter = dl.trial_counter + 1]
            /\ hist' = h
            /\ UNCHANGED <<last_dowload_status, df>>
       ELSE IF from_date_new >= adj_date_from_timeframe(now, cfg.tf)
              THEN /\ Return(<<>>, download_status("CursorPastNow"))
                   /\ hist' = [h EXCEPT !.last_exit = FailureClass("CursorPastNow")]
              ELSE /\ dl' = [dl EXCEPT !.trial_counter = dl.trial_counter + 1,
                                       !.from_date_selected = from_date_new]
                   /\ pc' = "dl_loop"
                   /\ hist' = h
                   /\ UNCHANGED <<last_dowload_status, df>>

\* One pass of the while loop of download().
DlAttempt ==
  /\ pc = "dl_loop"
  /\ env.mode = "script" => env.calls < MaxCalls
  /\ LET w == Window(dl.from_date_selected)
     IN IF w = <<>>
          THEN /\ TryAgain(hist)
               /\ UNCHANGED <<env, clock>>
          ELSE \E o \in FetchOutcomes(QuerySince(w), QueryLimit(w)) :
                 /\ env' = EnvAfterFetch
                 /\ clock' = IF o.kind = "rows" /\ ~IsAscending(o.rows)
                               THEN [clock EXCEPT !.disorder = clock.disorder + 1]
                               ELSE clock
                 /\ IF o.kind = "error"
                      THEN /\ Return(<<>>, download_status(o.cls))
                           /\ hist' = [hist EXCEPT !.last_exit = FailureClass(o.cls)]
                      ELSE IF o.rows = <<>>
                             THEN \* download_df_from_date raises on no candles
                                  /\ Return(<<>>, download_status("NoCandles"))
                                  /\ hist' = [hist EXCEPT !.last_exit = FailureClass("NoCandles")]
                             ELSE LET chunk == download_chunk_df(o.rows, w)
                                      h == [hist EXCEPT
                                              !.early = hist.early
                                                          \/ o.rows[1] < dm.initial_datetime]
                                  IN IF chunk # <<>>
                                       THEN /\ Return(chunk, RESULTS_STATUS_OK)
                                            /\ hist' = [h EXCEPT !.last_exit = "OK"]
                                       ELSE TryAgain(h)
  /\ UNCHANGED <<gateVars, pf, cfg, now, dm, store>>

(***************************************************************************)
(* The rest of the updater loop (lib/ticker_manager.py, lines 461-518).    *)
(***************************************************************************)
is_init_datetime_match(d, required) == required = None \/ required = d[1].date

has_init_datetime_gap(d, required) == required # None /\ d[1].date > required

has_init_datetime_overlap_or_equal(d, required) == required # None /\ d[1].date <= required

has_init_datetime_overlap(d, required) == required # None /\ d[1].date < required

write_to_db_until_break(table, d) ==
  LET brk == {i \in 1..(Len(d) - 1) : d[i + 1].date # d[i].date + to_seconds(cfg.tf)}
  IN table \o SubSeq(d, 1, IF brk = {} THEN Len(d) ELSE SetMin(brk))

\* my_db.write_dataframe_to_DB appends the rows.
write_to_db(table, d) == table \o d

write_dataframe_to_DB_partial(table, d, written) ==
  IF written THEN write_to_db(table, d) ELSE write_to_db(table, SubSeq(d, 1, 1))

\* write_dataframe_to_DB under repeat_try_access_to_DB: the rows are appended in
\* one transaction, or ten tries fail, AccessDBMaxTrialExceedError is raised
\* and swallowed by write_to_db, and the table is as it was.
write_dataframe_to_DB(table, d, written) ==
  IF written THEN write_to_db(table, d) ELSE table

AfterCycle_always_waits(table) ==
  IF get_db_last_date(table) = None \/ (cfg.final # None /\ get_db_last_date(table) >= cfg.final)
    THEN "top"
    ELSE "waiting"

\* Lines 508-518: loop at once, or wait for the next timeframe boundary.
AfterCycle(table) ==
  LET last_date == get_db_last_date(table)
      act_datetime == adj_date_from_timeframe(now, cfg.tf)
  IN IF last_date = None \/ (cfg.final # None /\ last_date >= cfg.final)
       THEN "top"
       ELSE IF \/ last_date >= act_datetime - get_base_delta(cfg.tf)
               \/ last_dowload_status = RESULTS_STATUS_END_OF_DATA
              THEN "waiting"
              ELSE "top"

EmptyDataBreak_unless_no_status ==
  last_dowload_status # None

\* Lines 503-507: with no data, the loop ends after a download that was OK, or
\* after END_OF_DATA once the final datetime is reached.
EmptyDataBreak ==
  \/ last_dowload_status = RESULTS_STATUS_OK
  \/ /\ last_dowload_status = RESULTS_STATUS_END_OF_DATA
     /\ cfg.final # None
     /\ cfg.final <= adj_date_from_timeframe(now, cfg.tf)

PostCycle ==
  /\ pc = "post"
  /\ IF df # <<>>
       THEN IF /\ ~is_init_datetime_match(df, dm.initial_datetime)
               /\ ~has_init_datetime_gap(df, dm.initial_datetime)
               /\ has_init_datetime_overlap(df, dm.initial_datetime)
              THEN /\ pc' = "blocked"
                   /\ UNCHANGED <<store, hist>>
              ELSE \E written \in (IF env.mode = "any" THEN BOOLEAN ELSE {TRUE}) :
                     /\ store' = write_dataframe_to_DB(store, df, written)
                     /\ hist' = IF written
                                  THEN [hist EXCEPT !.wroteAfterEarly =
                                                       hist.wroteAfterEarly \/ hist.early,
                                                    !.failed = NoFailure]
                                  ELSE [hist EXCEPT !.failed =
                                          [set |-> TRUE,
                                           start |-> dm.initial_datetime,
                                           last_date |-> get_db_last_date(store),
                                           last_id |-> get_db_last_id(store)]]
                     /\ pc' = AfterCycle(store')
       ELSE /\ pc' = IF EmptyDataBreak THEN "done" ELSE AfterCycle(store)
            /\ UNCHANGED <<store, hist>>
  /\ UNCHANGED <<gateVars, pf, cfg, env, now, dm, last_dowload_status, df, dl, clock>>

\* datetime_countdown: sleep until the next timeframe boundary.
Countdown ==
  /\ pc = "waiting"
  /\ clock.ticks < MaxTicks
  /\ now' = adj_date_from_timeframe(now, cfg.tf) + Step
  /\ clock' = [clock EXCEPT !.ticks = clock.ticks + 1]
  /\ pc' = "top"
  /\ UNCHANGED <<gateVars, pf, cfg, env, dm, last_dowload_status, df, store, dl, hist>>

\* The clock passes a timeframe boundary while the thread is busy; the thread
\* reads the clock at its start, in the download loop and after the download.
Tick ==
  /\ pc \in {"start", "dl_loop", "post"}
  /\ clock.ticks < MaxTicks
  /\ now' = now + Step
  /\ clock' = [clock EXCEPT !.ticks = clock.ticks + 1]
  /\ UNCHANGED <<gateVars, pf, cfg, env, pc, dm, last_dowload_status, df, store, dl, hist>>

\* The process is stopped between two cycles, or after the thread ended, and
\* started again (main.py): the objects are built anew, the database file stays.
Restart ==
  /\ pc \in Terminal \cup {"top", "waiting"}
  /\ clock.restarts < MaxRestarts
  /\ clock' = [clock EXCEPT !.restarts = clock.restarts + 1]
  /\ pc' = "start"
  /\ dm' = [first_available_datetime |-> None, initial_datetime |-> cfg.start,
            initial_datetime_id |-> None]
  /\ last_dowload_status' = None
  /\ df' = <<>>
  /\ dl' = [from_date |-> None, from_date_selected |-> None, trial_counter |-> 1,
            chunk |-> <<>>, status_set |-> FALSE]
  /\ hist' = [hist EXCEPT !.early = FALSE, !.last_exit = "none"]
  /\ UNCHANGED <<gateVars, pf, cfg, env, now, store>>

Next ==
  \/ UpdaterStart
  \/ LoopTop
  \/ WaitForSession
  \/ ResolveStart
  \/ DlAttempt
  \/ PostCycle
  \/ Countdown
  \/ Tick
  \/ Restart

Spec == Init /\ [][Next]_vars

(***************************************************************************)
(* Properties of the synchroniser.                                         *)
(***************************************************************************)
\* The row written last.
Checkpoint == store[Len(store)]

Downloading == pc \in {"resolve_wait", "resolve", "dl_wait", "dl_loop"}

\* C3: in every cycle that starts with a non-empty store, the start date
\* handed to the downloader is the date of the last stored row plus one
\* timeframe step and the id offset is the last stored id plus one, both read
\* back in that iteration, also after a restart; the first window asked of
\* the exchange starts exactly there.
C3_ResumeAtCheckpoint ==
  (Downloading /\ store # <<>>) =>
    /\ dm.initial_datetime = Checkpoint.date + to_seconds(cfg.tf)
    /\ dm.initial_datetime_id = Checkpoint.id + 1
    /\ pc \in {"dl_wait", "dl_loop"} =>
         /\ dl.from_date = Checkpoint.date + to_seconds(cfg.tf)
         /\ (dl.trial_counter = 1 /\ Window(dl.from_date_selected) # <<>>) =>
              Window(dl.from_date_selected)[1] = Checkpoint.date + to_seconds(cfg.tf)

C3_Witness ==
  /\ pc = "dl_loop"
  /\ Len(store) >= 2
  /\ clock.restarts = 1
  /\ dl.trial_counter = 1
  /\ Window(dl.from_date_selected) # <<>>

EndToEnd == env.tag = "e2e"

\* The window of one query: the budget less the tolerance.
WindowRows == NUM_DATA_IN_QUERY - QUERY_LENGTH_TOLERANCE

C6_CheckpointMonotone ==
  [][store # <<>> =>
       /\ store' # <<>>
       /\ get_db_last_date(store') >= get_db_last_date(store)
       /\ get_db_last_id(store') >= get_db_last_id(store)]_vars

\* The rows of one batch, written out of order: the last one is older than
\* the checkpoint was before the batch.
C6_Witness ==
  /\ Len(store) >= 3
  /\ \E i \in 1..(Len(store) - 2) :
       /\ store[i + 1].date = store[i].date + to_seconds(cfg.tf)
       /\ Checkpoint.date < store[i].date
       /\ Checkpoint.id > store[i].id

\* C7: with a fetcher that returns nothing until the cursor reaches day 5,
\* a Download call for a window starting at day 1 moves its cursor forward
\* after each empty result and returns the chunk of the rows of day 5 and
\* later, within the trial cap.
C7_AdvancesToDayFive ==
  (env.tag = "emptyUntil" /\ pc = "post") =>
    /\ dl.chunk # <<>>
    /\ dl.chunk[1].date >= T0 + 4 * Day
    /\ dl.from_date_selected > dl.from_date
    /\ dl.trial_counter <= MAX_TRIAL_NUM

\* The Download call is over after its first fetch: nothing returned, the
\* cursor still at day 1.
C7_Witness ==
  /\ env.tag = "emptyUntil"
  /\ pc = "post"
  /\ env.calls = 1
  /\ dl.chunk = <<>>
  /\ dl.trial_counter = 1
  /\ dl.from_date_selected = T0
  /\ last_dowload_status = RESULTS_STATUS_DATA_NOT_AVAILABLE

C9_CapIsNoDataAvailable ==
  dl.trial_counter > MAX_TRIAL_NUM =>
    /\ pc # "crashed"
    /\ last_dowload_status = RESULTS_STATUS_DATA_NOT_AVAILABLE
    /\ df = <<>>

\* The hundredth empty chunk: the exception leaves download() and the thread.
C9_Witness ==
  /\ env.tag = "longHole"
  /\ pc = "crashed"
  /\ dl.trial_counter = MAX_TRIAL_NUM + 1
  /\ Len(store) = 2
  /\ last_dowload_status = None

(***************************************************************************)
(* The classification of download() applied to two ways out of its loop.   *)
(***************************************************************************)
InitClassify ==
  /\ SyncOff
  /\ GateOff
  /\ \E a \in LoopExits, b \in LoopExits :
       pf = [op |-> "Classify", exits |-> <<a, b>>, out |-> <<>>]

Classify ==
  /\ pf.op = "Classify"
  /\ Len(pf.out) < Len(pf.exits)
  /\ pf' = [pf EXCEPT !.out = Append(pf.out, download_status(pf.exits[Len(pf.out) + 1]))]
  /\ UNCHANGED <<syncVars, gateVars>>

NextClassify == Classify

SpecClassify == InitClassify /\ [][NextClassify]_vars

Classified == pf.op = "Classify" /\ Len(pf.out) = 2

TransientFailures == {"ConnectionError", "NetworkError", "RateLimited"}

\* C10 as stated: two different failures among ConnectionError, NetworkError,
\* RateLimited, NoDataAvailable and EndOfData never leave the same status.
C10_Original ==
  Classified =>
    (FailureClass(pf.exits[1]) # FailureClass(pf.exits[2]) => pf.out[1] # pf.out[2])

\* C10: the downloader exposes three values, not five.  ConnectionError,
\* NetworkError and RateLimited all leave RESULTS_STATUS_NETWORK_ERROR;
\* NoDataAvailable leaves RESULTS_STATUS_DATA_NOT_AVAILABLE and EndOfData
\* leaves RESULTS_STATUS_END_OF_DATA; two failures leave the same status
\* exactly when they are the same failure or are both among the first three.
C10_ThreeValues ==
  Classified =>
    /\ \A i \in 1..2 :
         /\ FailureClass(pf.exits[i]) \in TransientFailures
              => pf.out[i] = RESULTS_STATUS_NETWORK_ERROR
         /\ FailureClass(pf.exits[i]) = "NoDataAvailable"
              => pf.out[i] = RESULTS_STATUS_DATA_NOT_AVAILABLE
         /\ FailureClass(pf.exits[i]) = "EndOfData"
              => pf.out[i] = RESULTS_STATUS_END_OF_DATA
    /\ (pf.out[1] = pf.out[2]) <=>
         \/ FailureClass(pf.exits[1]) = FailureClass(pf.exits[2])
         \/ {FailureClass(pf.exits[1]), FailureClass(pf.exits[2])} \subseteq TransientFailures

C10_Witness ==
  /\ Classified
  /\ FailureClass(pf.exits[1]) = "NetworkError"
  /\ FailureClass(pf.exits[2]) = "RateLimited"
  /\ pf.out[1] = pf.out[2]

(***************************************************************************)
(* Threads sharing one exchange manager (lib/exchange_lib_manager.py,      *)
(* ExchangeManagerCCXT; lib/wrapper_binance.py, init_exchange_managers).   *)
(***************************************************************************)
\* How many updater threads share the exchange manager.
MaxTasks == 2
\* How many requests each of them makes.
MaxRequests == 2

\* wrapper_binance.RATE_LIMITER_TIME, 0.5 s, in milliseconds.
RATE_LIMITER_TIME == 500

Tasks == 1..MaxTasks

\* The two requests that go through rate_limiter().
GatedCalls == {"test_connection", "fetch_OHLCV"}

InitGate ==
  /\ SyncOff
  /\ pf = [op |-> "gate", rate_limit_time |-> RATE_LIMITER_TIME]
  /\ requests_semaphore = 1
  /\ task = [t \in Tasks |-> [at |-> "idle", call |-> "none", done |-> 0]]

\* A thread enters test_connection or fetch_OHLCV, whose first statement is
\* rate_limiter(): with a rate limit time of 0 it goes straight to the request.
Call(t) ==
  /\ task[t].at = "idle"
  /\ task[t].done < MaxRequests
  /\ \E c \in GatedCalls :
       task' = [task EXCEPT ![t] = [@ EXCEPT !.call = c,
                                            !.at = IF pf.rate_limit_time > 0
                                                     THEN "acquire"
                                                     ELSE "request"]]
  /\ UNCHANGED <<syncVars, pf, requests_semaphore>>

\* requests_semaphore.acquire(): blocks while the value is 0.
Acquire(t) ==
  /\ task[t].at = "acquire"
  /\ requests_semaphore > 0
  /\ requests_semaphore' = requests_semaphore - 1
  /\ task' = [task EXCEPT ![t] = [@ EXCEPT !.at = "sleep"]]
  /\ UNCHANGED <<syncVars, pf>>

SleepRelease_without_release(t) ==
  /\ task[t].at = "sleep"
  /\ task' = [task EXCEPT ![t] = [@ EXCEPT !.at = "request"]]
  /\ UNCHANGED <<syncVars, pf, requests_semaphore>>

\* time.sleep(rate_limit_time), then requests_semaphore.release(): rate_limiter
\* returns and the request goes out to the exchange.
SleepRelease(t) ==
  /\ task[t].at = "sleep"
  /\ requests_semaphore' = requests_semaphore + 1
  /\ task' = [task EXCEPT ![t] = [@ EXCEPT !.at = "request"]]
  /\ UNCHANGED <<syncVars, pf>>

\* exchange.fetch_status() or exchange.fetch_ohlcv() returns or raises.
Respond(t) ==
  /\ task[t].at = "request"
  /\ task' = [task EXCEPT ![t] = [at |-> "idle", call |-> "none", done |-> @.done + 1]]
  /\ UNCHANGED <<syncVars, pf, requests_semaphore>>

NextGate ==
  \/ \E t \in Tasks : Call(t)
  \/ \E t \in Tasks : Acquire(t)
  \/ \E t \in Tasks : SleepRelease(t)
  \/ \E t \in Tasks : Respond(t)

SpecGate == InitGate /\ [][NextGate]_vars

InFlight == {t \in DOMAIN task : task[t].at = "request"}

\* C11: of the threads sharing one exchange manager, no two have a physical
\* request (a status check or a candle fetch) in flight at the same time.
C11_RequestsSerialized == Cardinality(InFlight) <= 1

\* Two requests in flight, the semaphore free again.
C11_Witness ==
  /\ Cardinality(InFlight) = 2
  /\ requests_semaphore = 1
  /\ \E s \in InFlight, t \in InFlight :
       task[s].call = "test_connection" /\ task[t].call = "fetch_OHLCV"

(***************************************************************************)
(* Failed writes.                                                          *)
(***************************************************************************)
\* C12: a write that failed does not move the checkpoint: until a write
\* succeeds the table's last date and id are the ones the failed cycle read,
\* and the next cycle asks the downloader for the same start again.
C12_FailedPersistKeepsCheckpoint ==
  (pc # "off" /\ hist.failed.set) =>
    /\ get_db_last_date(store) = hist.failed.last_date
    /\ get_db_last_id(store) = hist.failed.last_id
    /\ pc \in {"dl_wait", "dl_loop"} =>
         /\ dl.from_date = hist.failed.start
         /\ dm.initial_datetime = hist.failed.start

\* A cycle after a failed write on a table that already has rows.
C12_Witness ==
  /\ pc = "dl_loop"
  /\ hist.failed.set
  /\ store # <<>>
  /\ dl.trial_counter = 1
  /\ dl.from_date = Checkpoint.date + to_seconds(cfg.tf)

(***************************************************************************)
(* The end of a cycle: wait, fetch again, or leave the loop.               *)
(***************************************************************************)
\* The last stored date is within one timeframe step of the aligned current time.
CaughtUp(table) ==
  /\ table # <<>>
  /\ get_db_last_date(table) >= adj_date_from_timeframe(now, cfg.tf) - get_base_delta(cfg.tf)

EndOfData == last_dowload_status = RESULTS_STATUS_END_OF_DATA

\* C13: the synchronizer starts the countdown only at the end of a cycle whose
\* download ended with END_OF_DATA or after which the last stored date is
\* within one timeframe step of the aligned current time; a cycle with neither
\* goes back to the top of the loop without waiting, or leaves the loop.
C13_WaitingOnlyWhenCaughtUp ==
  [][/\ (pc # "waiting" /\ pc' = "waiting") =>
          /\ pc = "post"
          /\ EndOfData \/ CaughtUp(store')
     /\ (pc = "post" /\ pc' # "post" /\ ~EndOfData /\ ~CaughtUp(store')) =>
          pc' \in {"top"} \cup Terminal]_vars

\* Waiting after END_OF_DATA alone, and a cycle that went on without waiting.
C13_Witness ==
  /\ pc = "waiting"
  /\ EndOfData
  /\ ~CaughtUp(store)
  /\ store # <<>>

\* The configured end is reached: it is not after the aligned current time.
EndReached == cfg.final # None /\ cfg.final <= adj_date_from_timeframe(now, cfg.tf)

\* C14: a cycle whose download is empty or ended with END_OF_DATA goes to the
\* countdown before another fetch when no end is configured or the end is not
\* reached, also while the table holds no row; with END_OF_DATA and the end
\* reached it leaves the loop as done.
C14_EmptyCycleWaits ==
  [][(pc = "post" /\ pc' # "post" /\ df = <<>>) =>
       /\ ~EndReached => pc' = "waiting"
       /\ (EndOfData /\ EndReached) => pc' = "done"]_vars

\* END_OF_DATA, no end configured, no row stored: back at the top of the loop.
C14_Witness ==
  /\ pc = "top"
  /\ EndOfData
  /\ cfg.final = None
  /\ store = <<>>
  /\ df = <<>>
  /\ clock.ticks = 0

(***************************************************************************)
(* Stopping the updater threads (main.py).  The threads are daemon threads *)
(* that main() starts and joins; the updater reads no stop flag, so a      *)
(* thread stops only when the process ends, wherever it stands.            *)
(***************************************************************************)
\* The thread stands inside write_to_db: it has rows and the overlap exit is
\* not taken.
Persisting ==
  /\ pc = "post"
  /\ df # <<>>
  /\ ~(/\ ~is_init_datetime_match(df, dm.initial_datetime)
       /\ ~has_init_datetime_gap(df, dm.initial_datetime)
       /\ has_init_datetime_overlap(df, dm.initial_datetime))

\* The main thread leaves join() and the interpreter exits: the daemon thread
\* ends where it stands, in write_to_db with its transaction not committed.
ProcessExit ==
  /\ pc \notin Terminal \cup {"killed"}
  /\ \E at \in (IF Persisting THEN {"in_write", pc} ELSE {pc}) :
       hist' = [hist EXCEPT !.stopped = at]
  /\ pc' = "killed"
  /\ UNCHANGED <<gateVars, pf, cfg, env, now, dm, last_dowload_status, df, store, dl, clock>>

InitStop == InitRateLimit

NextStop == Next \/ ProcessExit

SpecStop == InitStop /\ [][NextStop]_vars

\* C15: a task that is told to stop finishes the write it is in and then
\* exits: no task is stopped inside a write, leaving it abandoned.
C15_StopFinishesPersisting == hist.stopped # "in_write"

\* Stopped inside the write: the rows of the cycle are not in the table.
C15_Witness ==
  /\ pc = "killed"
  /\ hist.stopped = "in_write"
  /\ df # <<>>
  /\ store = <<>>

(***************************************************************************)
(* Row validation (lib/my_datetime.py, DateTimeManager).                   *)
(***************************************************************************)
\* Lists of datetimes have 1..MaxList entries.
MaxList == 3

_is_consecutive_not_before(prev_date, act_date, tf) == act_date >= prev_date + to_seconds(tf)

\* timedelta(minutes=1), timedelta(hours=1) or timedelta(days=1) apart.
_is_consecutive(prev_date, act_date, tf) == act_date = prev_date + to_seconds(tf)

\* The for loop of get_non_consecutive_indexes from index i on; the list is
\* indexed from 0 in the source and from 1 here.
RECURSIVE non_consecutive_loop(_, _, _, _, _)
non_consecutive_loop(datetime_list, i, prev_date, non_consecutive_indexes, tf) ==
  IF i >= Len(datetime_list)
    THEN non_consecutive_indexes
    ELSE LET act_date == datetime_list[i + 1]
         IN non_consecutive_loop(
              datetime_list, i + 1, act_date,
              IF ~_is_consecutive(prev_date, act_date, tf)
                THEN Append(non_consecutive_indexes, <<i - 1, i>>)
                ELSE non_consecutive_indexes,
              tf)

get_non_consecutive_indexes(datetime_list, tf) ==
  non_consecutive_loop(datetime_list, 1, datetime_list[1], <<>>, tf)

\* None for no datetimes, else whether there is no break.
is_datetime_consecutive(datetimes, tf) ==
  IF datetimes # <<>>
    THEN get_non_consecutive_indexes(datetimes, tf) = <<>>
    ELSE None

DatetimeLists(tf) ==
  UNION {[1..n -> PlanTicks(tf)] : n \in 1..MaxList}

InitConsecutive ==
  /\ SyncOff
  /\ GateOff
  /\ \E tf \in Timeframes : \E l \in DatetimeLists(tf) :
       pf = [op |-> "Consecutive", tf |-> tf, datetime_list |-> l, applied |-> FALSE,
             out |-> <<>>, consecutive |-> FALSE]

Consecutive ==
  /\ pf.op = "Consecutive"
  /\ ~pf.applied
  /\ pf' = [pf EXCEPT !.applied = TRUE,
                      !.out = get_non_consecutive_indexes(pf.datetime_list, pf.tf),
                      !.consecutive = is_datetime_consecutive(pf.datetime_list, pf.tf)]
  /\ UNCHANGED <<syncVars, gateVars>>

NextConsecutive == Consecutive

SpecConsecutive == InitConsecutive /\ [][NextConsecutive]_vars

\* The positions i (counted from 0) of the rows that are not exactly one
\* timeframe step after the row before them.
Breaks(l, tf) == {i \in 1..(Len(l) - 1) : l[i + 1] - l[i] # to_seconds(tf)}

\* C16: for a non-empty list of timestamps the result is the list of the pairs
\* (i-1, i) of adjacent rows that are not exactly one timeframe step apart, each
\* once, in ascending order; three candles with one step missing between the
\* second and the third give exactly the pair (1, 2); and the result is empty,
\* and the rows are reported consecutive, exactly when there is no such pair.
C16_BreaksExactly ==
  (pf.op = "Consecutive" /\ pf.applied) =>
    LET l == pf.datetime_list
        out == pf.out
    IN /\ {out[k] : k \in 1..Len(out)} = {<<i - 1, i>> : i \in Breaks(l, pf.tf)}
       /\ Len(out) = Cardinality(Breaks(l, pf.tf))
       /\ \A k \in 1..(Len(out) - 1) : out[k][2] < out[k + 1][2]
       /\ (out = <<>>) <=> (\A i \in 1..(Len(l) - 1) : l[i + 1] = l[i] + to_seconds(pf.tf))
       /\ pf.consecutive <=> (out = <<>>)
       /\ l = <<T0, T0 + to_seconds(pf.tf), T0 + 3 * to_seconds(pf.tf)>>
            => out = << <<1, 2>> >>

C16_Witness ==
  /\ pf.op = "Consecutive"
  /\ pf.applied
  /\ pf.datetime_list = <<T0, T0 + to_seconds(pf.tf), T0 + 3 * to_seconds(pf.tf)>>
  /\ pf.out = << <<1, 2>> >>
  /\ ~pf.consecutive

(***************************************************************************)
(* The forward window applied to inputs drawn from a bounded set.          *)
(***************************************************************************)
\* Instants on a tick and half a minute after it.
WindowInstants(tf) == {t + off : t \in PlanTicks(tf), off \in {0, 30}}

InitWindow ==
  /\ SyncOff
  /\ GateOff
  /\ \E tf \in Timeframes :
       \E from_date \in WindowInstants(tf), act_date \in WindowInstants(tf),
          num_of_data \in 1..MaxBlock :
         pf = [op |-> "NextWindowFrom", tf |-> tf, from_date |-> from_date,
               act_date |-> act_date, num_of_data |-> num_of_data,
               applied |-> FALSE, out |-> <<>>]

NextWindowFrom ==
  /\ pf.op = "NextWindowFrom"
  /\ ~pf.applied
  /\ pf' = [pf EXCEPT !.applied = TRUE,
                      !.out = get_datetime_endpoints_from_date(
                                pf.from_date, pf.tf, pf.num_of_data, pf.act_date)]
  /\ UNCHANGED <<syncVars, gateVars>>

NextWindow == NextWindowFrom

SpecWindow == InitWindow /\ [][NextWindow]_vars

\* The start of the minute, hour or day an instant lies in.
Align(t, tf) == (t \div to_seconds(tf)) * to_seconds(tf)

\* C17: the forward window is none exactly when the aligned start is at or
\* after the aligned current time; otherwise it is one window that starts at
\* the aligned start, has at most num_of_data ticks and ends no later than one
\* step before the aligned current time.
C17_NextWindowFrom ==
  (pf.op = "NextWindowFrom" /\ pf.applied) =>
    LET first == Align(pf.from_date, pf.tf)
        act == Align(pf.act_date, pf.tf)
        step == to_seconds(pf.tf)
    IN /\ (pf.out = <<>>) <=> (first >= act)
       /\ pf.out # <<>> =>
            /\ Len(pf.out) = 2
            /\ pf.out[1] = first
            /\ pf.out[1] <= pf.out[2]
            /\ (pf.out[2] - pf.out[1]) % step = 0
            /\ (pf.out[2] - pf.out[1]) \div step + 1 <= pf.num_of_data
            /\ pf.out[2] <= act - step

\* A window cut short by the current time, from a start that is not on a tick.
C17_Witness ==
  /\ pf.op = "NextWindowFrom"
  /\ pf.applied
  /\ pf.from_date # Align(pf.from_date, pf.tf)
  /\ pf.out # <<>>
  /\ pf.out[2] = Align(pf.act_date, pf.tf) - to_seconds(pf.tf)
  /\ (pf.out[2] - pf.out[1]) \div to_seconds(pf.tf) + 1 < pf.num_of_data

(***************************************************************************)
(* Start and end of the requested range.                                   *)
(***************************************************************************)
\* C18: whenever the DateTimeManager has both an initial and a final datetime,
\* the initial datetime is not after the final one.
C18_StartNotAfterEnd ==
  (pc # "off" /\ dm.initial_datetime # None /\ cfg.final # None) =>
    dm.initial_datetime <= cfg.final

\* The initial datetime moved to a first available datetime that lies after
\* the final datetime.
C18_Witness ==
  /\ pc = "post"
  /\ cfg.start # None
  /\ cfg.start <= cfg.final
  /\ dm.initial_datetime = dm.first_available_datetime
  /\ dm.initial_datetime > cfg.final

(***************************************************************************)
(* Failures of the exchange.                                               *)
(***************************************************************************)
\* The cycle ends after a fetch that raised a connection, network or rate
\* limit error (the download manager's NETWORK_ERROR), or after
\* get_first_datetime returned None.
TransientFailure ==
  /\ pc = "post"
  /\ \/ last_dowload_status = RESULTS_STATUS_NETWORK_ERROR
     \/ dm.first_available_datetime = None

\* C19: a cycle that met a transient failure of the exchange, while resolving
\* the start or while downloading, does not end the updater loop: it writes
\* nothing and goes on to the next cycle, at once or after the countdown.
C19_TransientNotFatal ==
  [][(TransientFailure /\ pc' # "post") =>
       /\ pc' \in {"top", "waiting"}
       /\ store' = store]_vars

\* The cycle after a network error, with rows already stored.
C19_Witness ==
  /\ pc = "dl_wait"
  /\ last_dowload_status = RESULTS_STATUS_NETWORK_ERROR
  /\ store # <<>>
  /\ clock.restarts = 0

\* The cycle's download ended with RESULTS_STATUS_DATA_NOT_AVAILABLE.
NoDataAvailable ==
  /\ pc = "post"
  /\ last_dowload_status = RESULTS_STATUS_DATA_NOT_AVAILABLE

\* C20: a cycle whose download ended with DATA_NOT_AVAILABLE goes on to the
\* countdown or leaves the loop as done; it does not go back to the top of
\* the loop for another fetch without waiting.
C20_NoDataStopsAdvancing ==
  [][(NoDataAvailable /\ pc' # "post") => pc' \in {"waiting", "done"}]_vars

\* Back at the top of the loop after DATA_NOT_AVAILABLE, without a countdown:
\* with rows stored that are more than one step behind the current time.
C20_Witness ==
  /\ pc = "top"
  /\ last_dowload_status = RESULTS_STATUS_DATA_NOT_AVAILABLE
  /\ df = <<>>
  /\ store # <<>>
  /\ ~CaughtUp(store)
  /\ clock.ticks = 0
  /\ clock.restarts = 0

(***************************************************************************)
(* Validation of the downloaded rows (lib/ticker_manager.py, 469-497).     *)
(***************************************************************************)
Dates(d) == [i \in 1..Len(d) |-> d[i].date]

\* The tests of lines 470-485 end the loop: the first row is before the
\* requested start.
Overlap ==
  /\ ~is_init_datetime_match(df, dm.initial_datetime)
  /\ ~has_init_datetime_gap(df, dm.initial_datetime)
  /\ has_init_datetime_overlap(df, dm.initial_datetime)

\* C21: at the end of a cycle with rows, a gap before the first row and
\* non-consecutive rows do not keep the rows from the database: unless the
\* first row overlaps the requested start, which ends the loop with the table
\* untouched, the write is made, and once the database has taken it the table
\* is the old one followed by all the rows and its last row is the last row
\* downloaded.
C21_GapAndBreakStillWritten ==
  [][(pc = "post" /\ pc' # "post" /\ df # <<>>) =>
       IF Overlap
         THEN pc' = "blocked" /\ store' = store
         ELSE /\ pc' # "blocked"
              /\ \/ /\ store' = store \o df
                    /\ get_last_row(store') = df[Len(df)]
                    /\ ~hist'.failed.set
                 \/ /\ store' = store
                    /\ hist'.failed.set]_vars

\* Rows that begin after the requested start and miss a tick are in the
\* table, and the last of them is the checkpoint.
C21_Witness ==
  /\ pc \in {"top", "waiting"}
  /\ df # <<>>
  /\ has_init_datetime_gap(df, dm.initial_datetime)
  /\ ~is_datetime_consecutive(Dates(df), cfg.tf)
  /\ Len(store) > Len(df)
  /\ SubSeq(store, Len(store) - Len(df) + 1, Len(store)) = df
  /\ get_last_row(store) = df[Len(df)]
  /\ ~hist.failed.set

(***************************************************************************)
(* Resolution of the first available datetime (TickerManager.download,     *)
(* lines 83-91).                                                           *)
(***************************************************************************)
Resolving == pc \in {"resolve_wait", "resolve"}

\* A step of the running process, not its restart.
SameProcess == clock'.restarts = clock.restarts

\* C22: within one run of the process, a first available datetime that is set
\* is never changed and get_first_datetime is not called again; a call that
\* fails leaves it unset, ends the cycle with no rows, no fetch of a download
\* and no write, the loop goes on, and the next pass of the loop calls
\* get_first_datetime again.
C22_ResolvedOnce ==
  [][SameProcess =>
       /\ dm.first_available_datetime # None =>
            /\ dm'.first_available_datetime = dm.first_available_datetime
            /\ ~Resolving'
       /\ (pc = "resolve" /\ dm'.first_available_datetime = None) =>
            /\ pc' = "post"
            /\ df' = <<>>
            /\ store' = store
            /\ env' = env
            /\ last_dowload_status' = last_dowload_status
       /\ (pc = "post" /\ dm.first_available_datetime = None) =>
            /\ pc' \in {"post", "top", "waiting"}
            /\ store' = store
       /\ (pc = "top" /\ dm.first_available_datetime = None /\ pc' \notin Terminal) =>
            pc' = "resolve_wait"]_vars

\* get_first_datetime failed in a process that found rows in the table: no
\* first available datetime, nothing downloaded, the loop waits for the next
\* boundary.
C22_Witness ==
  /\ pc = "waiting"
  /\ dm.first_available_datetime = None
  /\ df = <<>>
  /\ store # <<>>
  /\ clock.restarts = 1

(***************************************************************************)
(* The start of the first download (TickerManager.download, lines 92-106). *)
(***************************************************************************)
Max(a, b) == IF a >= b THEN a ELSE b

\* download_manager.download() is running.
InDownload == pc \in {"dl_wait", "dl_loop"}

\* C23: while the table is empty, the from_date that download() is called
\* with is the later of the requested start and the first available datetime,
\* and the first available datetime when no start is requested.
C23_EffectiveStart ==
  (InDownload /\ store = <<>>) =>
    /\ dm.first_available_datetime # None
    /\ dl.from_date = IF cfg.start = None
                        THEN dm.first_available_datetime
                        ELSE Max(cfg.start, dm.first_available_datetime)
    /\ dm.initial_datetime = dl.from_date

\* The first download of a ticker whose requested start is before the first
\* candle of the exchange.
C23_Witness ==
  /\ pc = "dl_loop"
  /\ store = <<>>
  /\ cfg.start # None
  /\ cfg.start < dm.first_available_datetime
  /\ dl.from_date = dm.first_available_datetime
  /\ dl.trial_counter = 1
  /\ clock.restarts = 0

(***************************************************************************)
(* The calendar functions applied to inputs drawn from a bounded set       *)
(* (lib/my_datetime.py).                                                   *)
(***************************************************************************)
\* Instants on and off the grid of tf: a second, a minute, an hour after a
\* tick, and the last second before the next minute, hour and day.
CalendarInstants(tf) ==
  {t + off : t \in PlanTicks(tf), off \in {0, 1, 59, 60, 3599, 3600, 86399}}

InitCalendar ==
  /\ SyncOff
  /\ GateOff
  /\ \E tf \in Timeframes :
       \/ \E t \in CalendarInstants(tf) :
            pf = [op |-> "Align", tf |-> tf, t |-> t, applied |-> FALSE, out |-> <<>>]
       \/ \E a \in WindowInstants(tf), b \in WindowInstants(tf) :
            pf = [op |-> "StepCount", tf |-> tf, a |-> a, b |-> b, applied |-> FALSE,
                  out |-> <<>>]

\* adj_date_from_timeframe applied once, and once more to its result.
AlignTwice ==
  /\ pf.op = "Align"
  /\ ~pf.applied
  /\ LET once == adj_date_from_timeframe(pf.t, pf.tf)
     IN pf' = [pf EXCEPT !.applied = TRUE,
                         !.out = <<once, adj_date_from_timeframe(once, pf.tf)>>]
  /\ UNCHANGED <<syncVars, gateVars>>

\* get_diff_units applied from a to b and from b to a.
StepCountBothWays ==
  /\ pf.op = "StepCount"
  /\ ~pf.applied
  /\ pf' = [pf EXCEPT !.applied = TRUE,
                      !.out = <<get_diff_units(pf.a, pf.b, pf.tf),
                                get_diff_units(pf.b, pf.a, pf.tf)>>]
  /\ UNCHANGED <<syncVars, gateVars>>

NextCalendar ==
  \/ AlignTwice
  \/ StepCountBothWays

SpecCalendar == InitCalendar /\ [][NextCalendar]_vars

\* C24: for every instant and each of the three timeframes, aligning the
\* aligned instant gives the aligned instant again.
C24_AlignIdempotent ==
  (pf.op = "Align" /\ pf.applied) => pf.out[2] = pf.out[1]

\* An instant of the last second of a day, aligned to the day.
C24_Witness ==
  /\ pf.op = "Align"
  /\ pf.applied
  /\ pf.tf = "1d"
  /\ pf.t - pf.out[1] = 86399
  /\ pf.out[2] = pf.out[1]

OnGrid(t, tf) == t % to_seconds(tf) = 0

\* C25: for all instants a and b on the grid of the timeframe, the number of
\* steps from a to b is the negative of the number of steps from b to a.
C25_StepCountAntisymmetric ==
  (pf.op = "StepCount" /\ pf.applied /\ OnGrid(pf.a, pf.tf) /\ OnGrid(pf.b, pf.tf)) =>
    pf.out[1] = -pf.out[2]

\* Two different instants of the grid, the later one given first.
C25_Witness ==
  /\ pf.op = "StepCount"
  /\ pf.applied
  /\ OnGrid(pf.a, pf.tf)
  /\ OnGrid(pf.b, pf.tf)
  /\ pf.a > pf.b
  /\ pf.out[1] < 0
  /\ pf.out[2] = (pf.a - pf.b) \div to_seconds(pf.tf)

AttemptStep == pc = "dl_loop" /\ clock'.ticks = clock.ticks

\* The pass ended the call with candles, or with a failure of the exchange.
AttemptSucceeded == pc' = "post" /\ last_dowload_status' = RESULTS_STATUS_OK

AttemptFailed == pc' = "post" /\ last_dowload_status' = RESULTS_STATUS_NETWORK_ERROR

\* Half the query budget ahead of the cursor.
AdvancedCursor ==
  offset_datetime(dl.from_date_selected, NUM_DATA_IN_QUERY \div 2, cfg.tf)

\* C27: after a pass of the download loop that got no row for its window (no
\* candles at all, or none inside the window), the cursor is moved 100 steps
\* ahead: when that is at or past the aligned current time the call returns an
\* empty chunk with END_OF_DATA and fetches no more, otherwise the loop goes on
\* and its next pass queries from the moved cursor.
C27_EmptyChunkAdvances ==
  [][(AttemptStep /\ ~AttemptSucceeded /\ ~AttemptFailed) =>
       IF AdvancedCursor >= adj_date_from_timeframe(now, cfg.tf)
         THEN /\ pc' = "post"
              /\ last_dowload_status' = RESULTS_STATUS_END_OF_DATA
              /\ dl'.chunk = <<>>
              /\ df' = <<>>
         ELSE /\ pc' = "dl_loop"
              /\ dl'.from_date_selected = AdvancedCursor]_vars

\* The second call of download() ended like the first: one fetch without
\* candles, the cursor still at the start, 100 steps ahead being before now.
C27_Witness ==
  /\ env.tag = "emptyUntil"
  /\ pc = "post"
  /\ env.calls = 2
  /\ last_dowload_status = RESULTS_STATUS_DATA_NOT_AVAILABLE
  /\ dl.from_date_selected = dl.from_date
  /\ AdvancedCursor < adj_date_from_timeframe(now, cfg.tf)

(***************************************************************************)
(* Termination of download() (lib/wrapper_binance.py, lines 235-290).      *)
(***************************************************************************)
\* C28: a call of download() makes at most 100 passes of its loop: a pass is
\* made only with the trial counter between 1 and 100, every pass ends the
\* call (with rows, with a failure of the exchange, with END_OF_DATA, or by
\* the counter passing 100) or adds exactly one to the counter, and nothing
\* else changes the counter while the call runs.
C28_DownloadTerminates ==
  /\ [](pc = "dl_loop" => dl.trial_counter \in 1..MAX_TRIAL_NUM)
  /\ [][(pc = "dl_loop" /\ pc' = "dl_loop") =>
          IF AttemptStep
            THEN dl'.trial_counter = dl.trial_counter + 1
            ELSE dl'.trial_counter = dl.trial_counter]_vars
  /\ [][(AttemptStep /\ dl.trial_counter = MAX_TRIAL_NUM) => pc' # "dl_loop"]_vars

\* The hundredth pass is about to be made, the 99 before it got no row.
C28_Witness ==
  /\ pc = "dl_loop"
  /\ dl.trial_counter = MAX_TRIAL_NUM
  /\ dl.from_date_selected = offset_datetime(dl.from_date, 99 * (NUM_DATA_IN_QUERY \div 2), cfg.tf)
  /\ dl.chunk = <<>>

(***************************************************************************)
(* The query of download_chunk_df (lib/exchange_lib_manager.py, 313-370).  *)
(***************************************************************************)
\* The window of the pass of the download loop that is about to be made.
PassWindow == Window(dl.from_date_selected)

WindowTicks(w) == ((w[2] - w[1]) \div to_seconds(cfg.tf)) + 1

\* C29: the query made for a window starts one step before the window start
\* and asks for the number of ticks of the window plus 2 rows, which is never
\* more than the budget of 200 because the window has at most 198 ticks; the
\* rows kept from the response all lie between the window start and the
\* window end.
C29_QueryAndKeptRows ==
  [][(AttemptStep /\ PassWindow # <<>>) =>
       /\ QuerySince(PassWindow) = PassWindow[1] - to_seconds(cfg.tf)
       /\ QueryLimit(PassWindow) = WindowTicks(PassWindow) + 2
       /\ WindowTicks(PassWindow) <= NUM_DATA_IN_QUERY - 2
       /\ QueryLimit(PassWindow) <= NUM_DATA_IN_QUERY
       /\ \A i \in 1..Len(dl'.chunk) :
            /\ PassWindow[1] <= dl'.chunk[i].date
            /\ dl'.chunk[i].date <= PassWindow[2]]_vars

\* download() returned a chunk with a row from before the start of the window
\* it asked for.
C29_Witness ==
  /\ pc = "post"
  /\ dl.chunk # <<>>
  /\ last_dowload_status = RESULTS_STATUS_OK
  /\ \E i \in 1..Len(dl.chunk) :
       dl.chunk[i].date < adj_date_from_timeframe(dl.from_date_selected, cfg.tf)

(***************************************************************************)
(* wait_for_session and test_connection (lib/exchange_lib_manager.py).     *)
(***************************************************************************)
\* How many connection tests one call of wait_for_session makes in the model.
MaxTests == 4

\* time.sleep(10) after a failed test.
SESSION_RETRY_SLEEP == 10

\* fetch_status raises, or returns a status: 'ok' or one of the others of ccxt.
StatusOutcomes == {"raises", "ok", "shutdown", "error", "maintenance"}

test_connection_any_status(outcome) ==
  IF outcome = "raises" THEN "ExchangeConnectionError" ELSE "none"

\* test_connection: what it raises, "none" when it returns.
test_connection(outcome) ==
  CASE outcome = "raises" -> "ExchangeConnectionError"
    [] outcome = "ok" -> "none"
    [] OTHER -> "ExchangeStatusError"

\* The except clauses of wait_for_session.
SessionErrors == {"ExchangeConnectionError", "ExchangeStatusError"}

InitSession ==
  /\ SyncOff
  /\ GateOff
  /\ pf = [op |-> "wait_for_session", at |-> "test", tests |-> <<>>, slept |-> 0]

\* One pass of the while loop up to the break or the except clause.
TestConnection ==
  /\ pf.op = "wait_for_session"
  /\ pf.at = "test"
  /\ Len(pf.tests) < MaxTests
  /\ \E outcome \in StatusOutcomes :
       pf' = [pf EXCEPT !.tests = Append(pf.tests, outcome),
                        !.at = IF test_connection(outcome) = "none"
                                 THEN "returned"
                                 ELSE IF test_connection(outcome) \in SessionErrors
                                        THEN "sleep"
                                        ELSE "raised"]
  /\ UNCHANGED <<syncVars, gateVars>>

\* time.sleep(10), then the loop again.
SessionSleep ==
  /\ pf.op = "wait_for_session"
  /\ pf.at = "sleep"
  /\ pf' = [pf EXCEPT !.at = "test", !.slept = pf.slept + SESSION_RETRY_SLEEP]
  /\ UNCHANGED <<syncVars, gateVars>>

NextSession ==
  \/ TestConnection
  \/ SessionSleep

SpecSession == InitSession /\ [][NextSession]_vars

Succeeded(outcome) == outcome = "ok"

\* C30: wait_for_session has returned exactly when a connection test has
\* succeeded with the status 'ok', and that test is the last one made; after
\* every test that failed, by an exception or by another status, it sleeps
\* 10 seconds and tests again, however many tests have failed before.
C30_ReturnsOnlyAfterOk ==
  /\ [](pf.op = "wait_for_session" =>
          /\ pf.at \in {"test", "sleep", "returned"}
          /\ pf.at = "returned" <=> \E i \in 1..Len(pf.tests) : Succeeded(pf.tests[i])
          /\ \A i \in 1..Len(pf.tests) : Succeeded(pf.tests[i]) => i = Len(pf.tests)
          /\ pf.at = "sleep" => Len(pf.tests) >= 1
          /\ pf.slept = SESSION_RETRY_SLEEP
                          * (Len(pf.tests) - (IF pf.at \in {"sleep", "returned"} THEN 1 ELSE 0)))
  /\ [][(pf.at = "test" /\ pf' # pf) =>
          /\ Len(pf'.tests) = Len(pf.tests) + 1
          /\ pf'.at = IF Succeeded(pf'.tests[Len(pf'.tests)]) THEN "returned" ELSE "sleep"]_vars
  /\ [][(pf.at = "sleep" /\ pf' # pf) => (pf'.at = "test" /\ pf'.tests = pf.tests)]_vars

\* Returned after an exception, then a status that is not 'ok', then 'ok'.
C30_Witness ==
  /\ pf.op = "wait_for_session"
  /\ pf.at = "returned"
  /\ pf.tests = <<"raises", "maintenance", "ok">>
  /\ pf.slept = 2 * SESSION_RETRY_SLEEP

(***************************************************************************)
(* The session wait at the start of download() (lib/wrapper_binance.py,    *)
(* lines 229-240).                                                         *)
(***************************************************************************)
\* download() is called: the updater thread goes from the top of its loop, or
\* from the resolution of the first datetime, into the download manager.
DownloadCalled == pc \in {"top", "resolve"} /\ pc' \in {"dl_wait", "dl_loop"}

\* C31: a call of download() goes through wait_for_session before its first
\* fetch exactly when the call before it, in the same process, ended with a
\* ConnectionError, NetworkError or RateLimited outcome; after OK, EndOfData
\* or NoDataAvailable, and in the first call, the loop and its fetch start at
\* once.  While it waits no fetch is made, and the wait ends in the loop.
C31_SessionWaitAfterTransient ==
  /\ [][DownloadCalled =>
          (pc' = "dl_wait" <=> hist.last_exit \in TransientFailures)]_vars
  /\ [][pc = "dl_wait" =>
          /\ pc' \in {"dl_wait", "dl_loop"}
          /\ env' = env
          /\ dl' = dl]_vars

\* Waiting for the session after a rate limit error, rows already stored.
C31_Witness ==
  /\ pc = "dl_wait"
  /\ hist.last_exit = "RateLimited"
  /\ store # <<>>
  /\ dl.trial_counter = 1

(***************************************************************************)
(* The rate limiter in time (lib/exchange_lib_manager.py, lines 109-160).  *)
(* Time is counted in milliseconds; a thread may be delayed for any time   *)
(* between two of its statements, and a sleep lasts at least what is asked. *)
(***************************************************************************)
\* How long the threads are followed, in milliseconds.
MaxTime == 2000

InitRate ==
  /\ SyncOff
  /\ pf = [op |-> "rate", rate_limit_time |-> RATE_LIMITER_TIME, time |-> 0,
           starts |-> <<>>]
  /\ requests_semaphore = 1
  /\ task = [t \in Tasks |-> [at |-> "idle", wake |-> 0, done |-> 0]]

\* test_connection or fetch_OHLCV is entered and requests_semaphore.acquire()
\* returns; time.sleep(rate_limit_time) begins.
RateAcquire(t) ==
  /\ task[t].at = "idle"
  /\ task[t].done < MaxRequests
  /\ pf.rate_limit_time > 0
  /\ requests_semaphore > 0
  /\ requests_semaphore' = requests_semaphore - 1
  /\ task' = [task EXCEPT ![t] = [@ EXCEPT !.at = "sleep",
                                           !.wake = pf.time + pf.rate_limit_time]]
  /\ UNCHANGED <<syncVars, pf>>

\* The sleep is over; requests_semaphore.release() and rate_limiter returns.
RateRelease(t) ==
  /\ task[t].at = "sleep"
  /\ pf.time >= task[t].wake
  /\ requests_semaphore' = requests_semaphore + 1
  /\ task' = [task EXCEPT ![t] = [@ EXCEPT !.at = "released"]]
  /\ UNCHANGED <<syncVars, pf>>

\* exchange.fetch_status() or exchange.fetch_ohlcv() sends its request.
RateRequest(t) ==
  /\ task[t].at = "released"
  /\ pf' = [pf EXCEPT !.starts = Append(pf.starts, pf.time)]
  /\ task' = [task EXCEPT ![t] = [@ EXCEPT !.at = "idle", !.done = @ + 1]]
  /\ UNCHANGED <<syncVars, requests_semaphore>>

\* Time passes, by half the rate limit time.
RateAdvance ==
  /\ pf.op = "rate"
  /\ pf.time < MaxTime
  /\ pf' = [pf EXCEPT !.time = pf.time + (pf.rate_limit_time \div 2)]
  /\ UNCHANGED <<syncVars, gateVars>>

NextRate ==
  \/ \E t \in Tasks : RateAcquire(t)
  \/ \E t \in Tasks : RateRelease(t)
  \/ \E t \in Tasks : RateRequest(t)
  \/ RateAdvance

SpecRate == InitRate /\ [][NextRate]_vars

\* C32: with a rate limit time d > 0, the starts of any two requests the
\* threads sharing the exchange manager send are at least d apart.
C32_RequestsSpaced ==
  pf.op = "rate" =>
    \A i \in 1..Len(pf.starts), j \in 1..Len(pf.starts) :
      i < j => pf.starts[j] - pf.starts[i] >= pf.rate_limit_time

\* Two requests sent at the same time, each after a full sleep.
C32_Witness ==
  /\ pf.op = "rate"
  /\ Len(pf.starts) = 2
  /\ pf.starts[1] = pf.starts[2]
  /\ pf.starts[1] >= 2 * pf.rate_limit_time
  /\ \A t \in Tasks : t <= 2 => task[t].done = 1

(***************************************************************************)
(* C33.  The ways into Done (lib/ticker_manager.py, lines 425-446 and      *)
(* 498-507).                                                               *)
(***************************************************************************)
\* The checkpoint has reached the requested end.
CheckpointAtEnd == get_db_last_date(store) # None /\ get_db_last_date(store) >= cfg.final

\* The requested end predates the first available datetime.
EndBeforeFirst ==
  dm.first_available_datetime # None /\ cfg.final < dm.first_available_datetime

\* The cycle's download ended without a row at or before the requested end.
NoDataUpToEnd ==
  /\ df = <<>>
  /\ last_dowload_status \in {RESULTS_STATUS_OK, RESULTS_STATUS_END_OF_DATA}

\* C33: a ticker task is Done only with a requested end configured, and then
\* only when the checkpoint has reached that end, the end predates the first
\* available datetime, or no data up to the end remains; a task with no
\* requested end is never Done.
C33_DoneOnlyWithEnd ==
  pc = "done" => /\ cfg.final # None
                 /\ CheckpointAtEnd \/ EndBeforeFirst \/ NoDataUpToEnd

C33_Witness == pc = "done" /\ cfg.final # None /\ NoDataUpToEnd /\ ~CheckpointAtEnd

(***************************************************************************)
(* C34.  The status a download() call leaves behind                        *)
(* (lib/wrapper_binance.py, lines 229-290 and 376-437).                    *)
(***************************************************************************)
\* download() returns to TickerManager.download.
DownloadReturns == pc = "dl_loop" /\ pc' = "post"

ReturnStatuses ==
  {RESULTS_STATUS_OK, RESULTS_STATUS_NETWORK_ERROR,
   RESULTS_STATUS_DATA_NOT_AVAILABLE, RESULTS_STATUS_END_OF_DATA}

\* C34: whenever download() returns normally, its status was assigned during
\* that call, is one of OK, NETWORK_ERROR, DATA_NOT_AVAILABLE and END_OF_DATA,
\* and is OK exactly when the returned chunk is not empty.
C34_StatusOfThisCall ==
  [][DownloadReturns =>
       /\ dl'.status_set
       /\ last_dowload_status' \in ReturnStatuses
       /\ (last_dowload_status' = RESULTS_STATUS_OK <=> dl'.chunk # <<>>)]_vars

\* A call on a store with rows has returned with END_OF_DATA and no chunk.
C34_Witness ==
  /\ pc = "post"
  /\ dl.status_set
  /\ hist.last_exit = "EndOfData"
  /\ last_dowload_status = RESULTS_STATUS_END_OF_DATA
  /\ dl.chunk = <<>>
  /\ store # <<>>

(***************************************************************************)
(* C35.  The first row the ticker keeps and the overlap exit               *)
(* (lib/ticker_manager.py, lines 114-131, 167-176 and 478-485).            *)
(***************************************************************************)
\* TickerManager.has_data.
has_data == df # <<>>

\* C35: whenever the ticker holds data after TickerManager.download, its first
\* row is not earlier than the initial datetime, whatever the exchange
\* answered; the overlap check is false and the updater never takes the
\* overlap exit.
C35_NoOverlap ==
  /\ has_data => /\ dm.initial_datetime # None
                 /\ df[1].date >= dm.initial_datetime
                 /\ ~has_init_datetime_overlap(df, dm.initial_datetime)
  /\ pc # "blocked"

\* The exchange answered with a first candle before the initial datetime, and
\* the ticker holds the rows from the initial datetime on.
C35_Witness ==
  /\ pc = "post"
  /\ has_data
  /\ hist.early
  /\ dl.chunk[1].date >= dm.initial_datetime
  /\ df[1].date = dm.initial_datetime

(***************************************************************************)
(* C36.  The rows written for ascending responses                          *)
(* (lib/ticker_manager.py, lines 114-131 and 447-458).                     *)
(***************************************************************************)
\* Every response so far came in ascending order.
AscendingSoFar == clock.disorder = 0

\* write_to_db appends the ticker's rows to the table.
WriteStep == pc = "post" /\ store' # store

\* The start the cycle expects: the effective start on an empty store, the
\* checkpoint plus one step otherwise.
ExpectedStart ==
  IF store = <<>>
    THEN EffectiveStart(cfg.start, dm.first_available_datetime)
    ELSE get_db_last_date(store) + get_base_delta(cfg.tf)

Written == {i \in (Len(store) + 1)..Len(store') : TRUE}

IncreasingInIdOrder(table) ==
  /\ \A i, j \in 1..Len(table) : table[i].id < table[j].id => table[i].date < table[j].date
  /\ \A i, j \in 1..Len(table) : i # j => table[i].date # table[j].date

\* C36: for responses in ascending order, every row written lies between the
\* cycle's expected start and the requested end (when there is one), so the
\* stored timestamps increase strictly in id order and none is stored twice.
C36_WrittenWithinBounds ==
  /\ [][(WriteStep /\ AscendingSoFar) =>
          \A i \in Written :
            /\ store'[i].date >= ExpectedStart
            /\ cfg.final # None => store'[i].date <= cfg.final]_vars
  /\ [](AscendingSoFar => IncreasingInIdOrder(store))

\* Rows of a response that began before the expected start are in the store,
\* which has reached the requested end.
C36_Witness ==
  /\ AscendingSoFar
  /\ Len(store) >= 3
  /\ cfg.final # None
  /\ get_db_last_date(store) = cfg.final
  /\ hist.wroteAfterEarly

(***************************************************************************)
(* C37.  Row ids across batches (lib/table_manager.py, lines 199-213;      *)
(* lib/ticker_manager.py, lines 128-131 and 453-458).                      *)
(***************************************************************************)
\* The id the first row of the next batch gets.
NextId == IF store = <<>> THEN 0 ELSE get_db_last_id(store) + 1

SpecGateFair ==
  /\ InitGate
  /\ [][NextGate]_vars
  /\ \A t \in Tasks : SF_vars(Acquire(t))
  /\ \A t \in Tasks : WF_vars(SleepRelease(t))
  /\ \A t \in Tasks : WF_vars(Respond(t))

\* The threads that hold the semaphore.
Holders == {t \in Tasks : task[t].at = "sleep"}

MAX_TRIAL_NUM_DB == 10

\* The exceptions the wrapper catches.
StorageErrors == {"sqlite3.OperationalError", "sqlite3.DatabaseError"}

\* write_dataframe_to_DB, one call: an empty frame is rejected, otherwise
\* to_sql appends the rows or sqlite3 raises.
write_dataframe_to_DB_outcomes(df_empty) ==
  IF df_empty THEN {"WriteDBEmptyDataError"} ELSE {"ok"} \cup StorageErrors

InitRetry ==
  /\ SyncOff
  /\ GateOff
  /\ pf \in {[op |-> "retry", enable_retry |-> e, df_empty |-> b, trial_counter |-> 0,
              tried |-> <<>>, result |-> "running"] : e \in BOOLEAN, b \in BOOLEAN}

TrialsLeft_inclusive(n) == n <= MAX_TRIAL_NUM_DB

\* "while trial_counter < MAX_TRIAL_NUM"
TrialsLeft(n) == n < MAX_TRIAL_NUM_DB

\* One pass of the wrapper's loop: the function is called; its result is
\* returned, a storage error is slept on and counted (or raised again when
\* retrying is off), any other exception leaves the wrapper.
RetryAttempt ==
  /\ pf.op = "retry"
  /\ pf.result = "running"
  /\ TrialsLeft(pf.trial_counter)
  /\ \E o \in write_dataframe_to_DB_outcomes(pf.df_empty) :
       pf' = [pf EXCEPT
                !.tried = Append(pf.tried, o),
                !.result = IF o = "ok"
                             THEN "returned"
                             ELSE IF o \in StorageErrors /\ pf.enable_retry
                                    THEN "running"
                                    ELSE o,
                !.trial_counter = IF o \in StorageErrors /\ pf.enable_retry
                                    THEN pf.trial_counter + 1
                                    ELSE pf.trial_counter]
  /\ UNCHANGED <<syncVars, gateVars>>

\* The loop ends by its condition: raise AccessDBMaxTrialExceedError.
RetryExhausted ==
  /\ pf.op = "retry"
  /\ pf.result = "running"
  /\ ~TrialsLeft(pf.trial_counter)
  /\ pf' = [pf EXCEPT !.result = "AccessDBMaxTrialExceedError"]
  /\ UNCHANGED <<syncVars, gateVars>>

NextRetry == RetryAttempt \/ RetryExhausted

SpecRetry == InitRetry /\ [][NextRetry]_vars

AllStorageErrors(tried) == \A i \in 1..Len(tried) : tried[i] \in StorageErrors

\* C39: an operation under the retry decorator is attempted at most 10 times;
\* it returns the result of the first attempt that raises no storage error;
\* after 10 storage errors in a row it fails with AccessDBMaxTrialExceedError;
\* an error that is not a storage error, such as the rejection of an empty
\* write, leaves on the attempt that raised it, the first for an empty write,
\* with no retry.
C39_BoundedRetry ==
  (pf.op = "retry" /\ pf.enable_retry) =>
    /\ Len(pf.tried) <= 10
    /\ AllStorageErrors(SubSeq(pf.tried, 1, Len(pf.tried) - 1))
    /\ pf.result = "returned" <=> (pf.tried # <<>> /\ pf.tried[Len(pf.tried)] = "ok")
    /\ pf.result = "AccessDBMaxTrialExceedError" =>
         Len(pf.tried) = 10 /\ AllStorageErrors(pf.tried)
    /\ (Len(pf.tried) = 10 /\ AllStorageErrors(pf.tried)) =>
         pf.result \in {"running", "AccessDBMaxTrialExceedError"}
    /\ (pf.result = "running" /\ Len(pf.tried) = 10) => ENABLED RetryExhausted
    /\ (pf.df_empty /\ pf.tried # <<>>) =>
         pf.tried = <<"WriteDBEmptyDataError">> /\ pf.result = "WriteDBEmptyDataError"

\* The tenth attempt succeeded after nine storage errors.
C39_Witness ==
  /\ pf.op = "retry"
  /\ pf.enable_retry
  /\ pf.result = "returned"
  /\ Len(pf.tried) = 10

(***************************************************************************)
(* C40.  A start that is not yet available (lib/ticker_manager.py,         *)
(* lines 408-424).                                                         *)
(***************************************************************************)
\* The updater begins with its requested start at or after the aligned
\* current time.
StartsTooEarly ==
  /\ pc = "start"
  /\ pc' # "start"
  /\ cfg.start # None
  /\ cfg.start >= adj_date_from_timeframe(now, cfg.tf)

\* C40: an updater that begins with its requested start at or after the
\* aligned current time exits at once: it makes no fetch and no write, and it
\* enters neither the update loop nor Waiting; only a new process leaves the
\* exit.
C40_FutureStartExits ==
  /\ [][StartsTooEarly => /\ pc' = "exited"
                          /\ env' = env
                          /\ store' = store
                          /\ df' = df]_vars
  /\ [][pc = "exited" => /\ pc' \in {"exited", "start"}
                         /\ env' = env
                         /\ store' = store]_vars

\* The task has exited: its start is after the current time, nothing was
\* fetched and nothing stored.
C40_Witness ==
  /\ pc = "exited"
  /\ cfg.start > adj_date_from_timeframe(now, cfg.tf)
  /\ env.calls = 0
  /\ store = <<>>

====
